---- MODULE Spec2Model ----
(***************************************************************************)
(* Prediction ledger of CryptoSentinel: creation (generate_prediction),    *)
(* bounded storage (deque(maxlen=50)), persistence to the local JSON file  *)
(* and the Hopsworks feature group, delayed validation                     *)
(* (validate_predictions) and rehydration, plus the background scheduler   *)
(* loop and the threads that share the ledger.                             *)
(*                                                                         *)
(* Units.  Times are minutes on the wall clock (the source keeps epoch     *)
(* milliseconds and ISO strings).  Prices are integers in thousandths of a *)
(* dollar, so that round(x, 2) is a real rounding to whole cents.          *)
(* Python's None is the empty tuple and a present value v is <<v>>.        *)
(***************************************************************************)
EXTENDS Integers, Sequences, FiniteSets, TLC

VARIABLES
    now,                 \* wall clock, minutes
    prediction_history,  \* the in-memory deque, oldest first
    file,                \* PREDICTIONS_FILE: [state, data]
    remote,              \* rows of the Hopsworks feature group prediction_history
    serial,              \* number of records created so far (sub-minute part of timestamps)
    call,                \* the last operation and its outcome
    faults,              \* persistence failures met so far
    traced,              \* whether args records the inputs of validation passes
    args,                \* the inputs of the validation pass just run, if recorded
    session,             \* timestamps appended or rehydrated in this process, in order
    pc,                  \* position of each thread that works on the ledger
    locals,              \* locals of the validation pass that is under way in a thread
    clock,               \* time.time() of the scheduler thread, seconds
    sched_pc,            \* position of _scheduler_loop
    until,               \* when the pipeline run or sleep under way ends
    current_time,        \* _scheduler_loop's local current_time
    last_feature_time,   \* _scheduler_loop's local last_feature_time
    last_training_time,  \* _scheduler_loop's local last_training_time
    last_inference_time, \* _scheduler_loop's local last_inference_time
    unit_exc,            \* the exception the pipeline run under way ends with, "" if none
    logged_errors,       \* the scheduled units that have logged a pipeline error
    summary,             \* the last value returned by get_prediction_accuracy, if any
    model_loader,        \* the global ModelLoader: [loaded, models]
    result,              \* what the last generate_prediction call returned
    inputs,              \* what the last generate_prediction call met
    reference_data,      \* drift_detection._reference_data
    drift_report,        \* drift_detection._drift_report
    returned,            \* what the last detect_drift or get_drift_report call returned
    alert_history,       \* alerts.alert_history, oldest first
    alerts,              \* what the last check_alerts call returned
    alert_args,          \* the arguments of the last check_alerts call
    cycle,               \* what the last inference_pipeline run created and scanned
    active_dir,          \* version promoted to settings.ACTIVE_MODEL_DIR, if any
    registered,          \* versions registered in the Hopsworks model registry
    training,            \* what the last training_pipeline run met and did
    scheduler_running,   \* scheduler._scheduler_running
    loop_threads,        \* position of each _scheduler_loop thread started, in order
    caller_pc            \* position of each thread that calls start_scheduler

ledgerVars == <<now, prediction_history, file, remote, serial, call, faults, traced,
                args, session>>
threadVars == <<pc, locals>>
schedVars == <<clock, sched_pc, until, current_time, last_feature_time,
               last_training_time, last_inference_time, unit_exc, logged_errors>>
predictVars == <<model_loader, result, inputs>>
driftVars == <<reference_data, drift_report, returned>>
alertVars == <<alert_history, alerts, alert_args>>
trainVars == <<active_dir, registered, training>>
loopVars == <<scheduler_running, loop_threads, caller_pc>>
pipeVars == <<alertVars, cycle, trainVars, loopVars>>
auxVars == <<summary, predictVars, driftVars, pipeVars>>
vars == <<ledgerVars, threadVars, schedVars, auxVars>>


----------------------------------------------------------------------------
(* Bounds of the model *)

MaxTime == 30
MaxRecords == 1
MaxFaults == 1
MaxTicks == 40
MaxAlerts == 3
MaxTrainings == 2
MaxLoops == 3

----------------------------------------------------------------------------
(* Constants of the program *)

MAXLEN == 50
PREDICTION_MINUTES == 30
TRAINING_INTERVAL_MINUTES == 30
PREDICTION_REFRESH_MINUTES == 5
WINDOW_MINUTES == 5
HISTORY_HOURS == 2
FETCH_HOURS == 2
FETCH_LIMIT == 50

None == <<>>
Some(x) == <<x>>
Val(o) == o[1]

\* no validation pass has just run, or its inputs are not recorded
NoArgs == [current_price |-> None, points |-> {-1}]

Abs(x) == IF x < 0 THEN -x ELSE x
Min(a, b) == IF a < b THEN a ELSE b
Max(a, b) == IF a > b THEN a ELSE b

\* round(x, 2) on a price in thousandths: nearest cent, ties to the even cent
Round2(x) ==
    LET lo == (x \div 10) * 10
        r  == x - lo
    IN  IF r < 5 THEN lo
        ELSE IF r > 5 THEN lo + 10
        ELSE IF (lo \div 10) % 2 = 0 THEN lo ELSE lo + 10

\* dict.get(key): None when the key is absent
Get(entry, key) == IF key \in DOMAIN entry THEN entry[key] ELSE None

\* the last n elements of s (s[-n:])
LastN(s, n) == IF Len(s) <= n THEN s ELSE SubSeq(s, Len(s) - n + 1, Len(s))

\* the first n elements of s (head(n))
FirstN(s, n) == IF Len(s) <= n THEN s ELSE SubSeq(s, 1, n)

\* DequeAppend of a deque without maxlen
DequeAppend_Unbounded(q, e) == Append(q, e)

\* deque(maxlen=50).append
DequeAppend(q, e) == LastN(Append(q, e), MAXLEN)

\* deque(maxlen=50).extend
DequeExtend(q, items) == LastN(q \o items, MAXLEN)

----------------------------------------------------------------------------
(* Timestamps.  datetime.isoformat() strings are <<"iso", minute, serial>>; *)
(* pd.to_datetime turns them into pandas Timestamps <<"pd", minute, serial>>. *)

IsoFormat(minute, n) == <<"iso", minute, n>>
ToDatetime(ts) == <<"pd", ts[2], ts[3]>>
IsIsoString(ts) == ts[1] = "iso"
Minute(ts) == ts[2]
Serial(ts) == ts[3]

\* a record is pending while was_correct is None
Pending(entry) == entry.was_correct = None
Validated(entry) == entry.was_correct # None

Timestamps(h) == [i \in 1..Len(h) |-> h[i].timestamp]

----------------------------------------------------------------------------
(* Price source (app/data_fetcher.py) *)

\* raw prices the exchange API can report, in thousandths of a dollar
RawSpot == {0, 50000050}
RawActual == {50050053, 49700000}
RawEstimate == {50600000, 49400000}

\* fetch_current_price()["current_price"]
FetchCurrentPrice(raw) == Round2(raw)

\* the price series the API can report: a price for every minute
FlatPath == [t \in 0..(MaxTime + 1) |-> 50300000]
StepPath == [t \in 0..(MaxTime + 1) |-> IF t < PREDICTION_MINUTES THEN 50050053 ELSE 49700000]
PricePaths == {FlatPath, StepPath}

\* fetch_price_history(hours): the points of the last `hours` hours up to the
\* newest point the API has, one per refresh interval, prices rounded to cents
FetchPriceHistory(path, newest, hours, t) ==
    LET times == { u \in 0..newest : /\ u >= t - hours * 60
                                     /\ u % PREDICTION_REFRESH_MINUTES = 0 }
    IN  [u \in times |-> Round2(path[u])]

----------------------------------------------------------------------------
(* Persistence: local JSON file and Hopsworks feature group *)

\* json.dump(list of dicts) / json.load: every key of every dict is kept
JsonDump(data) == [i \in 1..Len(data) |-> [k \in DOMAIN data[i] |-> data[i][k]]]
JsonLoad(text) == [i \in 1..Len(text) |-> [k \in DOMAIN text[i] |-> text[i][k]]]

FileAbsent == [state |-> "absent", data |-> <<>>]
FilePartial == [state |-> "partial", data |-> <<>>]

\* outcome of open(PREDICTIONS_FILE, 'w') + json.dump
WriteOutcomes == {"ok", "open_fails", "write_fails"}

\* what one call of _save_predictions_to_file can meet: the outcome of the file
\* write and whether the feature group is reachable
SaveOutcomes == { <<"ok", TRUE>>, <<"ok", FALSE>>, <<"open_fails", TRUE>>,
                  <<"write_fails", FALSE>> }

\* the first try block of _save_predictions_to_file
WriteFile(f, h, outcome) ==
    CASE outcome = "ok"          -> [state |-> "ok", data |-> JsonDump(h)]
      [] outcome = "open_fails"  -> f
      [] outcome = "write_fails" -> FilePartial

\* columns store_predictions_to_hopsworks keeps (required_cols + optional_cols)
StoreCols == {"timestamp", "target_timestamp", "current_price", "predicted_price",
              "predicted_direction", "actual_price", "was_correct", "error_amount",
              "validated_at"}

\* one DataFrame row: the kept columns, a missing optional column is None
Row(entry) == [k \in StoreCols |-> Get(entry, k)]

\* store_predictions_to_hopsworks: insert the rows whose timestamp is not stored yet
StorePredictionsToHopsworks(rows, predictions, up) ==
    IF predictions = <<>> \/ ~up THEN rows
    ELSE LET existing_timestamps == { r.timestamp : r \in rows }
             df == { Row(predictions[i]) : i \in 1..Len(predictions) }
         IN  rows \cup { r \in df : r.timestamp \notin existing_timestamps }

\* sync_predictions_to_hopsworks
SyncPredictionsToHopsworks(rows, predictions, up) ==
    IF predictions = <<>> THEN rows
    ELSE StorePredictionsToHopsworks(rows, predictions, up)

\* df.sort_values('timestamp', ascending=False): newest first
RECURSIVE SortDescending(_)
SortDescending(rows) ==
    IF rows = {} THEN <<>>
    ELSE LET newest == CHOOSE r \in rows :
                          \A o \in rows : Serial(o.timestamp) <= Serial(r.timestamp)
         IN  <<newest>> \o SortDescending(rows \ {newest})

\* fetch_predictions_from_hopsworks(limit, hours)
FetchPredictionsFromHopsworks(rows, up, limit, hours, t) ==
    IF ~up \/ rows = {} THEN <<>>
    ELSE LET converted == { [r EXCEPT !.timestamp = ToDatetime(r.timestamp)] : r \in rows }
             recent == { r \in converted : Minute(r.timestamp) >= t - hours * 60 }
         IN  FirstN(SortDescending(recent), limit)

\* _save_predictions_to_file: the file write, then the remote sync
SavePredictionsToFile(h, met) ==
    /\ file' = WriteFile(file, h, met[1])
    /\ remote' = SyncPredictionsToHopsworks(remote, h, met[2])
    /\ faults' = IF met = <<"ok", TRUE>> THEN faults ELSE faults + 1

\* the environment lets a save fail only MaxFaults times
Allowed(met) == met = <<"ok", TRUE>> \/ faults < MaxFaults

----------------------------------------------------------------------------
(* generate_prediction and _store_prediction *)

\* _store_prediction undoing the append when the save fails
StorePrediction_RollsBack(h, entry, met) ==
    IF met = <<"ok", TRUE>> THEN DequeAppend(h, entry) ELSE h

\* _store_prediction: the ledger after the append and the save, whose failures
\* _save_predictions_to_file catches
StorePrediction(h, entry, met) == DequeAppend(h, entry)

\* the entry _store_prediction appends
NewEntry(t, n, current_price, predicted_price) ==
    [ timestamp           |-> IsoFormat(t, n),
      target_timestamp    |-> IsoFormat(t + PREDICTION_MINUTES, n),
      target_timestamp_ms |-> Some(t + PREDICTION_MINUTES),
      current_price       |-> Round2(current_price),
      predicted_price     |-> Round2(predicted_price),
      predicted_direction |-> IF predicted_price > current_price THEN "up" ELSE "down",
      actual_price        |-> None,
      was_correct         |-> None,
      error_amount        |-> None,
      validated_at        |-> None ]

\* generate_prediction returns None: models not loaded, no regressor answered,
\* or an exception (the division by current_price) inside the try block
PredictionUnavailable(loaded, estimate, current_price) ==
    \/ ~loaded
    \/ estimate = None
    \/ current_price = 0

\* the model follows MaxRecords records, each with a target time that a
\* validation pass can reach before the clock stops
InHorizon ==
    /\ serial < MaxRecords
    /\ now + PREDICTION_MINUTES <= MaxTime + WINDOW_MINUTES

GeneratePrediction ==
    \E rawSpot \in RawSpot, loaded \in BOOLEAN,
       estimate \in {None} \cup { Some(e) : e \in RawEstimate },
       met \in SaveOutcomes :
        LET current_price == FetchCurrentPrice(rawSpot) IN
        /\ InHorizon
        /\ Allowed(met)
        /\ IF PredictionUnavailable(loaded, estimate, current_price)
           THEN /\ met = <<"ok", TRUE>>
                /\ call' = "generate_none"
                /\ UNCHANGED <<prediction_history, file, remote, serial, session, faults>>
           ELSE LET entry == NewEntry(now, serial + 1, current_price, Val(estimate)) IN
                /\ prediction_history' = StorePrediction(prediction_history, entry, met)
                /\ SavePredictionsToFile(prediction_history', met)
                /\ serial' = serial + 1
                /\ session' = Append(session, entry.timestamp)
                /\ call' = "generate_record"
        /\ args' = NoArgs
        /\ UNCHANGED <<now, traced, threadVars, schedVars, auxVars>>

----------------------------------------------------------------------------
(* validate_predictions *)

\* settings.DIRECTION_TOLERANCE_PCT = 0.1:
\* abs(actual_change / price_at_prediction * 100) < 0.1
WithinTolerance(actual_change, price_at_prediction) ==
    Abs(actual_change) <= (price_at_prediction - 1) \div 1000

\* lines 287-298: the stored target time, or for a record without one the
\* creation time plus the horizon; None when the timestamp cannot be parsed
\* (a pandas Timestamp is not an ISO string)
TargetOf(entry) ==
    LET target_timestamp_ms == Get(entry, "target_timestamp_ms") IN
    IF target_timestamp_ms # None /\ Val(target_timestamp_ms) # 0
    THEN target_timestamp_ms
    ELSE IF IsIsoString(entry.timestamp)
         THEN Some(Minute(entry.timestamp) + PREDICTION_MINUTES)
         ELSE None

\* lines 300-305: the first point of price_dict within 5 minutes of the target
FirstMatch(price_dict, target) ==
    LET near == { u \in DOMAIN price_dict : Abs(u - target) <= WINDOW_MINUTES } IN
    IF near = {} THEN None
    ELSE Some(price_dict[CHOOSE u \in near : \A v \in near : u <= v])

\* ActualPrice taking the fallback before the target time is reached
ActualPrice_Forced(entry, price_dict, current_price, t) ==
    LET target == TargetOf(entry) IN
    IF target = None THEN None
    ELSE LET match == FirstMatch(price_dict, Val(target)) IN
         IF match # None THEN match ELSE current_price

\* lines 300-315: the realized price of a pending entry, None when it is skipped
ActualPrice(entry, price_dict, current_price, t) ==
    LET target == TargetOf(entry) IN
    IF target = None THEN None
    ELSE LET match == FirstMatch(price_dict, Val(target)) IN
         IF match # None THEN match
         ELSE IF t >= Val(target) THEN current_price
         ELSE None

\* lines 326-334 follow a division by the creation price (line 324)
Raises(entry, price_dict, current_price, t) ==
    /\ Pending(entry)
    /\ ActualPrice(entry, price_dict, current_price, t) # None
    /\ entry.current_price = 0

\* lines 317-318, reached before the division
PartlyWritten(entry, actual_price, t) ==
    [k \in DOMAIN entry |->
        CASE k = "actual_price" -> Some(Round2(actual_price))
          [] k = "validated_at" -> Some(t)
          [] OTHER              -> entry[k]]

\* Written scoring the nominal direction whatever the size of the move
Written_ScoresNominalDirection(entry, actual_price, t) ==
    LET actual_change == actual_price - entry.current_price
        actual_direction == IF actual_change > 0 THEN "up" ELSE "down"
    IN  [k \in DOMAIN entry \cup {"validation_note"} |->
            CASE k = "actual_price"    -> Some(Round2(actual_price))
              [] k = "validated_at"    -> Some(t)
              [] k = "error_amount"    -> Some(Round2(Abs(entry.predicted_price - actual_price)))
              [] k = "was_correct"     -> Some(actual_direction = entry.predicted_direction)
              [] k = "validation_note" -> Some("direction_validated")
              [] OTHER                 -> entry[k]]

\* Written counting every move beyond the tolerance as a correct prediction
Written_IgnoresDirection(entry, actual_price, t) ==
    LET within == WithinTolerance(actual_price - entry.current_price, entry.current_price)
    IN  [k \in DOMAIN entry \cup {"validation_note"} |->
            CASE k = "actual_price"    -> Some(Round2(actual_price))
              [] k = "validated_at"    -> Some(t)
              [] k = "error_amount"    -> Some(Round2(Abs(entry.predicted_price - actual_price)))
              [] k = "was_correct"     -> Some(~within)
              [] k = "validation_note" ->
                    Some(IF within THEN "price_within_tolerance"
                         ELSE "direction_validated")
              [] OTHER                 -> entry[k]]

\* lines 317-334: the validation fields of one entry
Written(entry, actual_price, t) ==
    LET price_at_prediction == entry.current_price
        actual_change == actual_price - price_at_prediction
        within == WithinTolerance(actual_change, price_at_prediction)
        actual_direction == IF actual_change > 0 THEN "up" ELSE "down"
    IN  [k \in DOMAIN entry \cup {"validation_note"} |->
            CASE k = "actual_price"    -> Some(Round2(actual_price))
              [] k = "validated_at"    -> Some(t)
              [] k = "error_amount"    -> Some(Round2(Abs(entry.predicted_price - actual_price)))
              [] k = "was_correct"     ->
                    Some(IF within THEN FALSE
                         ELSE actual_direction = entry.predicted_direction)
              [] k = "validation_note" ->
                    Some(IF within THEN "price_within_tolerance"
                         ELSE "direction_validated")
              [] OTHER                 -> entry[k]]

\* ValidateEntry without the check of line 284
ValidateEntry_Revalidates(entry, price_dict, current_price, t) ==
    LET actual_price == ActualPrice(entry, price_dict, current_price, t) IN
    IF actual_price = None THEN entry
    ELSE IF entry.current_price = 0
         THEN PartlyWritten(entry, Val(actual_price), t)
         ELSE Written(entry, Val(actual_price), t)

\* one iteration of the loop at line 283
ValidateEntry(entry, price_dict, current_price, t) ==
    IF Validated(entry) THEN entry
    ELSE LET actual_price == ActualPrice(entry, price_dict, current_price, t) IN
         IF actual_price = None THEN entry
         ELSE IF entry.current_price = 0
              THEN PartlyWritten(entry, Val(actual_price), t)
              ELSE Written(entry, Val(actual_price), t)

\* the loop: every entry up to and including the first that raises
ValidateLoop(h, price_dict, current_price, t) ==
    LET bad == { i \in 1..Len(h) : Raises(h[i], price_dict, current_price, t) }
        stop == IF bad = {} THEN Len(h) ELSE CHOOSE i \in bad : \A j \in bad : i <= j
    IN  [i \in 1..Len(h) |->
            IF i <= stop THEN ValidateEntry(h[i], price_dict, current_price, t)
            ELSE h[i]]

LoopRaises(h, price_dict, current_price, t) ==
    \E i \in 1..Len(h) : Raises(h[i], price_dict, current_price, t)

\* price_dict = {} after a failed fetch
EmptyDict == [u \in {} |-> 0]

\* how stale the newest point of a fetched history can be, in minutes
StaleBy == {0, 15}

\* lines 273-281: the fetched points by timestamp, {} after a failed fetch
PriceDict(fetched, path, stale, t) ==
    LET history_hours == Max(HISTORY_HOURS, PREDICTION_MINUTES \div 60 + 1) IN
    IF fetched THEN FetchPriceHistory(path, t - stale, history_hours, t)
    ELSE EmptyDict

\* some pending entry takes the fallback current_price as its realized price
UsesFallback(h, price_dict, current_price, t) ==
    \E i \in 1..Len(h) :
        /\ Pending(h[i])
        /\ TargetOf(h[i]) # None
        /\ FirstMatch(price_dict, Val(TargetOf(h[i]))) = None
        /\ ActualPrice(h[i], price_dict, current_price, t) # None

ValidatePredictionsWith(fallback, fetched, path, stale, met) ==
    LET price_dict == PriceDict(fetched, path, stale, now) IN
    /\ Allowed(met)
    /\ IF ~fetched /\ fallback = None
       THEN /\ met = <<"ok", TRUE>>
            /\ call' = "validate_noop"
            /\ UNCHANGED <<prediction_history, file, remote, faults>>
       ELSE /\ prediction_history' =
                    ValidateLoop(prediction_history, price_dict, fallback, now)
            /\ IF LoopRaises(prediction_history, price_dict, fallback, now)
               THEN /\ met = <<"ok", TRUE>>
                    /\ call' = "validate_raised"
                    /\ UNCHANGED <<file, remote, faults>>
               ELSE /\ call' = IF UsesFallback(prediction_history, price_dict, fallback, now)
                                 THEN "validate_fallback" ELSE "validate_returned"
                    /\ SavePredictionsToFile(prediction_history', met)
    /\ args' = IF traced THEN [current_price |-> fallback, points |-> DOMAIN price_dict]
               ELSE NoArgs
    /\ UNCHANGED <<now, serial, session, traced, threadVars, schedVars, auxVars>>

Fallbacks == {None} \cup { Some(FetchCurrentPrice(r)) : r \in RawActual }

ValidatePredictions ==
    \E fallback \in Fallbacks, fetched \in BOOLEAN, path \in PricePaths,
       stale \in StaleBy, met \in SaveOutcomes :
        /\ (~fetched \/ stale # 0) => path = FlatPath
        /\ ValidatePredictionsWith(fallback, fetched, path, stale, met)

----------------------------------------------------------------------------
(* Process start and rehydration *)

\* lines 371-379: the load that runs when app.predictor is imported
StartupLoad(f) ==
    IF f.state = "ok" THEN DequeExtend(<<>>, LastN(JsonLoad(f.data), MAXLEN))
    ELSE <<>>

\* _load_predictions_from_file: the feature group first, the file otherwise
LoadPredictionsFromFileResult(h, f, rows, up, t) ==
    LET hopsworks_predictions ==
            FetchPredictionsFromHopsworks(rows, up, FETCH_LIMIT, FETCH_HOURS, t)
    IN  IF hopsworks_predictions # <<>>
        THEN DequeExtend(h, hopsworks_predictions)
        ELSE IF f.state = "ok" THEN DequeExtend(h, LastN(JsonLoad(f.data), MAXLEN))
        ELSE h

\* the process stops and a new one imports app.predictor
Restart ==
    \E up \in BOOLEAN :
        /\ prediction_history' = StartupLoad(file)
        /\ session' = Timestamps(prediction_history')
        /\ call' = IF up THEN "restart_remote_up" ELSE "restart_remote_down"
        /\ args' = NoArgs
        /\ UNCHANGED <<now, file, remote, serial, faults, traced, threadVars, schedVars, auxVars>>

\* the wall clock advances by one refresh interval
Tick ==
    /\ now + PREDICTION_REFRESH_MINUTES <= MaxTime
    /\ now' = now + PREDICTION_REFRESH_MINUTES
    /\ call' = "tick"
    /\ args' = NoArgs
    /\ UNCHANGED <<prediction_history, file, remote, serial, session, faults, traced,
                   threadVars, schedVars, auxVars>>

----------------------------------------------------------------------------
(* Threads.  The API runs the scheduled inference job and each HTTP request  *)
(* in worker threads of one process; the threads share prediction_history.  *)
(* No lock is taken anywhere in app/predictor.py, so the steps below         *)
(* interleave freely.                                                        *)

Threads == {"scheduled", "http"}

NoLocals == [price_dict |-> EmptyDict, current_price |-> None, index |-> 0,
             state |-> 0, t |-> 0]

\* the deque's mutation count, which its iterators compare on every step
DequeState == Len(session)

\* the scheduled thread: generate_prediction up to the append of line 219
StorePredictionAppend ==
    \E rawSpot \in RawSpot, estimate \in RawEstimate :
        LET current_price == FetchCurrentPrice(rawSpot)
            entry == NewEntry(now, serial + 1, current_price, estimate)
        IN  /\ pc["scheduled"] = "idle"
            /\ InHorizon
            /\ ~PredictionUnavailable(TRUE, Some(estimate), current_price)
            /\ prediction_history' = DequeAppend(prediction_history, entry)
            /\ serial' = serial + 1
            /\ session' = Append(session, entry.timestamp)
            /\ pc' = [pc EXCEPT !["scheduled"] = "save"]
            /\ call' = "append"
            /\ args' = NoArgs
            /\ UNCHANGED <<now, file, remote, faults, traced, locals, schedVars, auxVars>>

\* the scheduled thread: line 220, _save_predictions_to_file
StorePredictionSave ==
    \E met \in SaveOutcomes :
        /\ pc["scheduled"] = "save"
        /\ Allowed(met)
        /\ SavePredictionsToFile(prediction_history, met)
        /\ pc' = [pc EXCEPT !["scheduled"] = "idle"]
        /\ call' = "generate_record"
        /\ args' = NoArgs
        /\ UNCHANGED <<now, prediction_history, serial, traced, session, locals, schedVars, auxVars>>

\* the HTTP thread: trigger_validation enters validate_predictions, lines 270-283
ValidateBegin ==
    \E fallback \in Fallbacks, fetched \in BOOLEAN, path \in PricePaths, stale \in StaleBy :
        /\ pc["http"] = "idle"
        /\ (~fetched \/ stale # 0) => path = FlatPath
        /\ IF ~fetched /\ fallback = None
           THEN /\ call' = "validate_noop"
                /\ UNCHANGED <<pc, locals>>
           ELSE /\ locals' = [price_dict    |-> PriceDict(fetched, path, stale, now),
                              current_price |-> fallback,
                              index         |-> 0,
                              state         |-> DequeState,
                              t             |-> now]
                /\ pc' = [pc EXCEPT !["http"] = "loop"]
                /\ call' = "validate_scan"
        /\ args' = NoArgs
        /\ UNCHANGED <<now, prediction_history, file, remote, serial, faults, traced,
                       session, schedVars, auxVars>>

\* the HTTP thread: one step of `for entry in prediction_history`, up to the
\* writes of lines 317-318.  The iterator raises RuntimeError (deque mutated
\* during iteration) when the deque was appended to since the loop began;
\* nothing in validate_predictions catches it.
ValidateStep ==
    /\ pc["http"] = "loop"
    /\ IF locals.state # DequeState
       THEN /\ pc' = [pc EXCEPT !["http"] = "idle"]
            /\ locals' = NoLocals
            /\ call' = "validate_raised"
            /\ UNCHANGED prediction_history
       ELSE IF locals.index = Len(prediction_history)
       THEN /\ pc' = [pc EXCEPT !["http"] = "save"]
            /\ call' = "validate_scan"
            /\ UNCHANGED <<prediction_history, locals>>
       ELSE LET i == locals.index + 1
                entry == prediction_history[i]
                actual_price == IF Validated(entry) THEN None
                                ELSE ActualPrice(entry, locals.price_dict,
                                                 locals.current_price, locals.t)
            IN  /\ locals' = [locals EXCEPT !.index = i]
                /\ call' = "validate_scan"
                /\ IF actual_price = None
                   THEN UNCHANGED <<prediction_history, pc>>
                   ELSE /\ prediction_history' =
                              [prediction_history EXCEPT
                                  ![i] = PartlyWritten(entry, Val(actual_price), locals.t)]
                        /\ pc' = [pc EXCEPT !["http"] = "write"]
    /\ args' = NoArgs
    /\ UNCHANGED <<now, file, remote, serial, faults, traced, session, schedVars, auxVars>>

\* the HTTP thread: lines 320-334, the division and the remaining writes of the
\* entry that lines 317-318 began
ValidateWrite ==
    /\ pc["http"] = "write"
    /\ LET i == locals.index
           entry == prediction_history[i]
           actual_price == ActualPrice(entry, locals.price_dict, locals.current_price,
                                       locals.t)
           raises == entry.current_price = 0
       IN  /\ prediction_history' =
                 IF raises THEN prediction_history
                 ELSE [prediction_history EXCEPT
                          ![i] = Written(entry, Val(actual_price), locals.t)]
           /\ pc' = [pc EXCEPT !["http"] = IF raises THEN "idle" ELSE "loop"]
           /\ locals' = IF raises THEN NoLocals ELSE locals
           /\ call' = IF raises THEN "validate_raised" ELSE "validate_scan"
    /\ args' = NoArgs
    /\ UNCHANGED <<now, file, remote, serial, faults, traced, session, schedVars, auxVars>>

\* the HTTP thread: line 343, _save_predictions_to_file
ValidateSave ==
    \E met \in SaveOutcomes :
        /\ pc["http"] = "save"
        /\ Allowed(met)
        /\ SavePredictionsToFile(prediction_history, met)
        /\ pc' = [pc EXCEPT !["http"] = "idle"]
        /\ locals' = NoLocals
        /\ call' = "validate_returned"
        /\ args' = NoArgs
        /\ UNCHANGED <<now, prediction_history, serial, traced, session, schedVars, auxVars>>

----------------------------------------------------------------------------
(* The background scheduler thread (app/scheduler.py) *)

FEATURE_INTERVAL == PREDICTION_REFRESH_MINUTES * 60
TRAINING_INTERVAL == TRAINING_INTERVAL_MINUTES * 60
INFERENCE_INTERVAL == PREDICTION_REFRESH_MINUTES * 60
SLEEP_SECONDS == 30

\* time.time() when the thread starts: seconds since the epoch, far above every
\* interval, so that every value at least the longest interval behaves alike
StartTime == TRAINING_INTERVAL

\* how long one run of a pipeline can take, seconds
Durations(pipeline) == IF pipeline = "training" THEN {30, 600} ELSE {30}

\* what a pipeline can raise: dependency unavailable, timeout, model error
Exceptions == {"ConnectionError", "TimeoutError", "ValueError"}

\* how a pipeline run ends: with no exception or with one of them
Endings == {""} \cup Exceptions

\* an except clause that names ValueError only
CaughtByUnit_ValueErrorOnly(exc) == exc = "ValueError"

\* lines 24-25, 40-41, 53-54 and main.py 31-32, 41-42: except Exception
CaughtByUnit(exc) == exc \in Exceptions

\* where the loop thread is after a pipeline run that ended with `exc`: at
\* `next` when the unit returned, dead when the exception left the unit
AfterUnit(exc, next) == IF exc = "" \/ CaughtByUnit(exc) THEN next ELSE "dead"

\* the units that have logged an error, after a run of `unit` ending with `exc`
Logged(unit, exc) == IF exc # "" /\ CaughtByUnit(exc) THEN logged_errors \cup {unit} ELSE logged_errors

\* lines 92-93: the first inference run, before the loop
RunFirstInference ==
    \E d \in Durations("inference"), exc \in Endings :
        /\ sched_pc = "start"
        /\ sched_pc' = "first_inference"
        /\ until' = clock + d
        /\ unit_exc' = exc
        /\ UNCHANGED <<clock, current_time, last_feature_time, last_training_time,
                       last_inference_time, logged_errors, ledgerVars, threadVars, auxVars>>

EndFirstInference ==
    /\ sched_pc = "first_inference"
    /\ clock >= until
    /\ sched_pc' = AfterUnit(unit_exc, "top")
    /\ last_inference_time' = IF sched_pc' = "dead" THEN last_inference_time ELSE clock
    /\ logged_errors' = Logged("inference", unit_exc)
    /\ unit_exc' = ""
    /\ UNCHANGED <<clock, until, current_time, last_feature_time, last_training_time,
                   ledgerVars, threadVars, auxVars>>

\* line 96: current_time = time.time()
LoopTop ==
    /\ sched_pc = "top"
    /\ current_time' = clock
    /\ sched_pc' = "feature"
    /\ UNCHANGED <<clock, until, last_feature_time, last_training_time,
                   last_inference_time, unit_exc, logged_errors, ledgerVars, threadVars, auxVars>>

\* lines 98-99: _run_feature_pipeline() starts when due
CheckFeature ==
    \E d \in Durations("feature"), exc \in Endings :
        /\ sched_pc = "feature"
        /\ IF current_time - last_feature_time >= FEATURE_INTERVAL
           THEN sched_pc' = "in_feature" /\ until' = clock + d /\ unit_exc' = exc
           ELSE sched_pc' = "training" /\ until' = until /\ unit_exc' = unit_exc
        /\ UNCHANGED <<clock, current_time, last_feature_time, last_training_time,
                       last_inference_time, logged_errors, ledgerVars, threadVars, auxVars>>

\* line 100, once _run_feature_pipeline() has returned
EndFeature ==
    /\ sched_pc = "in_feature"
    /\ clock >= until
    /\ sched_pc' = AfterUnit(unit_exc, "training")
    /\ last_feature_time' = IF sched_pc' = "dead" THEN last_feature_time
                            ELSE current_time
    /\ logged_errors' = Logged("feature", unit_exc)
    /\ unit_exc' = ""
    /\ UNCHANGED <<clock, until, current_time, last_training_time, last_inference_time,
                   ledgerVars, threadVars, auxVars>>

\* lines 102-103: _run_training_pipeline() starts when due
CheckTraining ==
    \E d \in Durations("training"), exc \in Endings :
        /\ sched_pc = "training"
        /\ IF current_time - last_training_time >= TRAINING_INTERVAL
           THEN sched_pc' = "in_training" /\ until' = clock + d /\ unit_exc' = exc
           ELSE sched_pc' = "inference" /\ until' = until /\ unit_exc' = unit_exc
        /\ UNCHANGED <<clock, current_time, last_feature_time, last_training_time,
                       last_inference_time, logged_errors, ledgerVars, threadVars, auxVars>>

\* line 104, once _run_training_pipeline() has returned
EndTraining ==
    /\ sched_pc = "in_training"
    /\ clock >= until
    /\ sched_pc' = AfterUnit(unit_exc, "inference")
    /\ last_training_time' = IF sched_pc' = "dead" THEN last_training_time
                             ELSE current_time
    /\ logged_errors' = Logged("training", unit_exc)
    /\ unit_exc' = ""
    /\ UNCHANGED <<clock, until, current_time, last_feature_time, last_inference_time,
                   ledgerVars, threadVars, auxVars>>

\* lines 106-107: _run_inference_pipeline() starts when due
CheckInference ==
    \E d \in Durations("inference"), exc \in Endings :
        /\ sched_pc = "inference"
        /\ IF current_time - last_inference_time >= INFERENCE_INTERVAL
           THEN sched_pc' = "in_inference" /\ until' = clock + d /\ unit_exc' = exc
           ELSE sched_pc' = "sleep" /\ until' = clock + SLEEP_SECONDS
                                    /\ unit_exc' = unit_exc
        /\ UNCHANGED <<clock, current_time, last_feature_time, last_training_time,
                       last_inference_time, logged_errors, ledgerVars, threadVars, auxVars>>

\* line 108, once _run_inference_pipeline() has returned; then time.sleep(30)
EndInference ==
    /\ sched_pc = "in_inference"
    /\ clock >= until
    /\ sched_pc' = AfterUnit(unit_exc, "sleep")
    /\ last_inference_time' = IF sched_pc' = "dead" THEN last_inference_time
                              ELSE current_time
    /\ until' = IF sched_pc' = "dead" THEN until ELSE clock + SLEEP_SECONDS
    /\ logged_errors' = Logged("inference", unit_exc)
    /\ unit_exc' = ""
    /\ UNCHANGED <<clock, current_time, last_feature_time, last_training_time,
                   ledgerVars, threadVars, auxVars>>

\* line 110: time.sleep(30) returns
Wake ==
    /\ sched_pc = "sleep"
    /\ clock >= until
    /\ sched_pc' = "top"
    /\ UNCHANGED <<clock, until, current_time, last_feature_time, last_training_time,
                   last_inference_time, unit_exc, logged_errors, ledgerVars, threadVars, auxVars>>

\* api/main.py run_scheduled_prediction / run_scheduled_training: one run of an
\* APScheduler interval job; an exception that leaves the job is logged by the
\* APScheduler executor
RunScheduledJob ==
    \E job \in {"prediction_job", "training_job"}, exc \in Endings :
        /\ logged_errors' = IF exc = "" \/ CaughtByUnit(exc) THEN Logged(job, exc)
                     ELSE logged_errors \cup {"apscheduler"}
        /\ UNCHANGED <<clock, sched_pc, until, current_time, last_feature_time,
                       last_training_time, last_inference_time, unit_exc, ledgerVars,
                       threadVars, auxVars>>

\* time passes while a pipeline runs or the thread sleeps
Advance ==
    /\ clock < until
    /\ clock + SLEEP_SECONDS <= StartTime + MaxTicks * SLEEP_SECONDS
    /\ clock' = clock + SLEEP_SECONDS
    /\ UNCHANGED <<sched_pc, until, current_time, last_feature_time, last_training_time,
                   last_inference_time, unit_exc, logged_errors, ledgerVars, threadVars, auxVars>>

----------------------------------------------------------------------------
(* get_prediction_accuracy *)

RECURSIVE SumSeq(_)
SumSeq(q) == IF q = <<>> THEN 0 ELSE Head(q) + SumSeq(Tail(q))

\* round(num / den): the nearest integer, ties to the even one
RoundRatio(num, den) ==
    LET lo == num \div den
        r2 == 2 * (num - lo * den)
    IN  IF r2 < den THEN lo
        ELSE IF r2 > den THEN lo + 1
        ELSE IF lo % 2 = 0 THEN lo ELSE lo + 1

\* a float: NaN or a number
NaN == [nan |-> TRUE, value |-> 0]
Number(x) == [nan |-> FALSE, value |-> x]

\* round(np.mean(xs), 2) on amounts in thousandths; np.mean([]) is NaN
RoundedMean(xs) ==
    IF xs = <<>> THEN NaN
    ELSE Number(10 * RoundRatio(SumSeq(xs), 10 * Len(xs)))

\* GetPredictionAccuracy that leaves out the `if not validated` return
GetPredictionAccuracy_CountsPending(h) ==
    LET validated == SelectSeq(h, Validated)
        Correct(entry) == entry.was_correct = Some(TRUE)
        correct == Len(SelectSeq(validated, Correct))
    IN  [ accuracy          |-> IF validated = <<>> THEN 0
                                ELSE RoundRatio(correct * 1000, Len(validated)),
          total_predictions |-> Len(h),
          validated_count   |-> Len(h),
          correct_count     |-> correct,
          avg_error         |-> NaN ]

\* get_prediction_accuracy(); accuracy is in tenths of a percent, avg_error in
\* thousandths of a dollar
GetPredictionAccuracy(h) ==
    LET validated == SelectSeq(h, Validated)
        Correct(entry) == entry.was_correct = Some(TRUE)
        Truthy(entry) == entry.error_amount # None /\ Val(entry.error_amount) # 0
        correct == Len(SelectSeq(validated, Correct))
        errors == SelectSeq(validated, Truthy)
    IN  IF validated = <<>>
        THEN [ accuracy |-> 0, total_predictions |-> 0, validated_count |-> 0 ]
        ELSE [ accuracy          |-> RoundRatio(correct * 1000, Len(validated)),
               total_predictions |-> Len(h),
               validated_count   |-> Len(validated),
               correct_count     |-> correct,
               avg_error         |->
                   RoundedMean([i \in 1..Len(errors) |-> Val(errors[i].error_amount)]) ]

\* a caller (GET /prediction/accuracy, the dashboard pages) asks for the summary
AskAccuracy ==
    /\ summary' = Some(GetPredictionAccuracy(prediction_history))
    /\ call' = "get_prediction_accuracy"
    /\ args' = NoArgs
    /\ UNCHANGED <<now, prediction_history, file, remote, serial, faults, traced, session,
                   threadVars, schedVars, predictVars, driftVars,
                   pipeVars>>

----------------------------------------------------------------------------
(* generate_prediction, model by model *)

\* names under which the trainer stores models: regressors, and the three
\* that generate_prediction does not ask for a price
Regressors == {"xgboost", "random_forest"}
Others == {"classifier", "kmeans", "pca"}

\* model bundles a store can hold, in the order the store lists them
Bundles == { <<"xgboost", "random_forest", "classifier", "kmeans", "pca">>,
             <<"random_forest", "xgboost">> }

\* model_loader.best_model_name: metadata.get("best_model", "xgboost")
BestModelName == "xgboost"

NotLoaded == [loaded |-> FALSE, models |-> <<>>]

Names(models) == { models[i] : i \in DOMAIN models }

\* ensure_models_loaded: the loaded models, else the local directory, else
\* the model registry; a store that is missing or fails is None
EnsureModelsLoaded(loader, local, registry) ==
    IF loader.loaded THEN loader
    ELSE IF local # None THEN [loaded |-> TRUE, models |-> Val(local)]
    ELSE IF registry # None THEN [loaded |-> TRUE, models |-> Val(registry)]
    ELSE loader

\* what model.predict returns for a regressor
Estimate(name, e) == IF name = BestModelName THEN e ELSE 50100000

\* lines 135-146: the regressors that answered, in the order of the bundle
Answered(models, raising) ==
    SelectSeq(models, LAMBDA name : name \in Regressors /\ name \notin raising)

\* line 150: the best model's price, or the first one collected
PredictedPrice(answered, e) ==
    IF BestModelName \in Names(answered) THEN Estimate(BestModelName, e)
    ELSE Estimate(answered[1], e)

\* what the classifier can do: raise, or give a class and max(predict_proba) in
\* tenths of a percent
ClassifierOutcomes ==
    { [raises |-> TRUE, pred |-> 0, proba |-> 500] }
    \cup { [raises |-> FALSE, pred |-> c, proba |-> q] : c \in {0, 1}, q \in {600, 990} }

\* line 154, in tenths of a percent: min(95, 50 + price_diff_pct * 10)
PriceConfidence(predicted_price, current_price) ==
    Min(950, 500 + RoundRatio(Abs(predicted_price - current_price) * 1000,
                              current_price \div 10))

\* Confidence adopting a higher classifier probability whatever its direction
Confidence_IgnoresDirection(models, predicted_price, current_price, classifier) ==
    LET confidence == PriceConfidence(predicted_price, current_price)
    IN  IF /\ "classifier" \in Names(models)
           /\ ~classifier.raises
           /\ classifier.proba > confidence
        THEN classifier.proba
        ELSE confidence

\* lines 152-172: the confidence of the record, in tenths of a percent
Confidence(models, predicted_price, current_price, classifier) ==
    LET direction == IF predicted_price > current_price THEN "up" ELSE "down"
        confidence == PriceConfidence(predicted_price, current_price)
        classifier_direction == IF classifier.pred = 1 THEN "up" ELSE "down"
    IN  IF /\ "classifier" \in Names(models)
           /\ ~classifier.raises
           /\ classifier_direction = direction
           /\ classifier.proba > confidence
        THEN classifier.proba
        ELSE confidence

\* AllPredictions listing every regressor of the bundle
AllPredictions_EveryRegressor(models, answered, e) ==
    [name \in Names(models) \cap Regressors |-> Round2(Estimate(name, e))]

\* line 196: the rounded price of every regressor that answered
AllPredictions(models, answered, e) ==
    [name \in Names(answered) |-> Round2(Estimate(name, e))]

\* lines 174-179: regimes[cluster % 4] when kmeans and pca are loaded
MarketRegime(models, cluster) ==
    LET regimes == <<"accumulation", "uptrend", "distribution", "downtrend">> IN
    IF {"kmeans", "pca"} \subseteq Names(models) THEN regimes[(cluster % 4) + 1]
    ELSE "neutral"

\* what pca.transform / kmeans.predict can do: raise (-1) or give a cluster
ClusterOutcomes == {-1, 6}

Stores == {None} \cup { Some(b) : b \in Bundles }

\* the classifier outcome noted when the bundle has no classifier or it raises
NoClassifier == [raises |-> TRUE, pred |-> 0, proba |-> 500]

NoInputs == [failures |-> {}, raising |-> {}, answered |-> {},
             classifier |-> NoClassifier]

\* what went wrong during one call: the stores, the features, the regressors,
\* the division by current_price, the regime models
Failures(loader, features_ok, answered, current_price, cluster) ==
    {"models_not_loaded" : x \in {1} \cap (IF loader.loaded THEN {} ELSE {1})}
    \cup {"features_raise" : x \in {1} \cap (IF features_ok THEN {} ELSE {1})}
    \cup {"no_model_answered" : x \in {1} \cap (IF answered = <<>> THEN {1} ELSE {})}
    \cup {"zero_price" : x \in {1} \cap (IF current_price = 0 THEN {1} ELSE {})}
    \cup {"regime_raises" : x \in {1} \cap
            (IF {"kmeans", "pca"} \subseteq Names(loader.models) /\ cluster = -1
             THEN {1} ELSE {})}

ValidationKeys == {"actual_price", "was_correct", "error_amount", "validated_at"}

\* lines 184-198 and 212-218: the entry appended for a prediction
DetailedEntry(t, n, models, answered, e, current_price, classifier, cluster) ==
    LET predicted_price == PredictedPrice(answered, e)
        base == NewEntry(t, n, current_price, predicted_price)
        more == {"confidence", "market_regime", "model_used", "all_predictions",
                 "prediction_horizon_minutes"}
    IN  [k \in DOMAIN base \cup more |->
            CASE k = "confidence"      ->
                    Confidence(models, predicted_price, current_price, classifier)
              [] k = "market_regime"   -> MarketRegime(models, cluster)
              [] k = "model_used"      -> BestModelName
              [] k = "all_predictions" -> AllPredictions(models, answered, e)
              [] k = "prediction_horizon_minutes" -> PREDICTION_MINUTES
              [] OTHER                 -> base[k]]

\* the dict generate_prediction returns: the entry without the validation fields
Returned(entry) == [k \in DOMAIN entry \ ValidationKeys |-> entry[k]]

\* NoPrediction letting a failure of the regime models pass as "neutral"
NoPrediction_IgnoresRegime(loader, features_ok, answered, current_price, cluster) ==
    CASE ~loader.loaded     -> "models_not_loaded"
      [] ~features_ok       -> "features_raise"
      [] answered = <<>>    -> "no_model_answered"
      [] current_price = 0  -> "zero_price"
      [] OTHER              -> ""

\* why generate_prediction returns None (lines 124, 148, 207), "" when it does not
NoPrediction(loader, features_ok, answered, current_price, cluster) ==
    CASE ~loader.loaded     -> "models_not_loaded"
      [] ~features_ok       -> "features_raise"
      [] answered = <<>>    -> "no_model_answered"
      [] current_price = 0  -> "zero_price"
      [] {"kmeans", "pca"} \subseteq Names(loader.models) /\ cluster = -1
                            -> "regime_raises"
      [] OTHER              -> ""

\* generate_prediction(features, current_price) with the models it loads and asks
GeneratePredictionWithModels ==
    \E rawSpot \in RawSpot, local \in Stores, registry \in {None, Some(<<"xgboost">>)},
       features_ok \in BOOLEAN, raising \in SUBSET Regressors, e \in RawEstimate,
       classifier \in ClassifierOutcomes, cluster \in ClusterOutcomes,
       met \in SaveOutcomes :
        LET current_price == FetchCurrentPrice(rawSpot)
            loader == EnsureModelsLoaded(model_loader, local, registry)
            answered == Answered(loader.models, raising)
        IN  /\ Allowed(met)
            /\ model_loader' = loader
            /\ LET cause == NoPrediction(loader, features_ok, answered, current_price,
                                         cluster)
               IN  IF cause # ""
                   THEN /\ met = <<"ok", TRUE>>
                        /\ inputs' = [NoInputs EXCEPT !.failures =
                                        Failures(loader, features_ok, answered,
                                                 current_price, cluster)]
                        /\ result' = None
                        /\ call' = "generate_none"
                        /\ UNCHANGED <<prediction_history, file, remote, serial, session,
                                       faults>>
                   ELSE LET entry == DetailedEntry(now, serial + 1, loader.models, answered,
                                                   e, current_price, classifier, cluster)
                        IN  /\ InHorizon
                            /\ inputs' = [failures |-> Failures(loader, features_ok,
                                                       answered, current_price, cluster),
                                          raising |-> raising,
                                          answered |-> Names(answered),
                                          classifier |->
                                            IF "classifier" \in Names(loader.models)
                                            THEN classifier ELSE NoClassifier]
                            /\ prediction_history' = StorePrediction(prediction_history, entry, met)
                            /\ SavePredictionsToFile(prediction_history', met)
                            /\ serial' = serial + 1
                            /\ session' = Append(session, entry.timestamp)
                            /\ result' = Some(Returned(entry))
                            /\ call' = "generate_record"
            /\ args' = NoArgs
            /\ UNCHANGED <<now, traced, summary, threadVars, schedVars, driftVars, pipeVars>>

----------------------------------------------------------------------------
(* Drift detection (app/drift_detection.py) *)

\* settings.DRIFT_THRESHOLD = 0.3; scores are in thousandths
DRIFT_THRESHOLD == 300

\* feature frames: each column present holds one of two sample distributions
Columns == {"rsi", "macd"}
Frames == UNION { [c -> {0, 1}] : c \in (SUBSET Columns) \ {{}} }

\* what the imports give: deepchecks works, deepchecks raises, deepchecks is
\* not installed, neither deepchecks nor scipy is installed
Libraries == {"deepchecks", "deepchecks_raises", "no_deepchecks", "no_scipy"}

\* domain_classifier_drift_score values DatasetDrift can give
Scores == {100, 450}

\* lines 32-37: the report returned when no reference is set, with
\* drift_detected TRUE
NoReferenceReport_Detected(t) ==
    [drift_detected |-> TRUE, drift_score |-> 0, message |-> "No reference data set",
     timestamp |-> t]

\* lines 32-37: the report returned when no reference is set
NoReferenceReport(t) ==
    [drift_detected |-> FALSE, drift_score |-> 0, message |-> "No reference data set",
     timestamp |-> t]

\* lines 50-57: the DeepChecks report
DeepchecksReport(score, t) ==
    [drift_detected |-> score > DRIFT_THRESHOLD, drift_score |-> score,
     threshold |-> DRIFT_THRESHOLD, method |-> "deepchecks", timestamp |-> t]

\* lines 67-72: the report returned when the primary strategy raises
ErrorReport(t) ==
    [drift_detected |-> FALSE, drift_score |-> 0, error |-> "error", timestamp |-> t]

\* lines 89-100: the columns of both frames whose samples differ
\* (ks_2samp statistic 1, else 0)
FeatureDrifts(ref, cur, feature_columns) ==
    [col \in feature_columns \cap DOMAIN ref \cap DOMAIN cur |->
        [statistic |-> IF ref[col] = cur[col] THEN 0 ELSE 1000,
         drifted   |-> ref[col] # cur[col]]]

\* _simple_drift_detection: the KS-test report
SimpleDriftDetection(ref, cur, feature_columns, t) ==
    LET feature_drifts == FeatureDrifts(ref, cur, feature_columns)
        total == 1000 * Cardinality({ col \in DOMAIN feature_drifts :
                                        feature_drifts[col].drifted })
        avg_score == IF feature_columns # {}
                     THEN total \div Cardinality(feature_columns) ELSE 0
    IN  [drift_detected |-> avg_score > DRIFT_THRESHOLD, drift_score |-> avg_score,
         threshold |-> DRIFT_THRESHOLD, feature_drifts |-> feature_drifts,
         method |-> "ks_test", timestamp |-> t]

\* get_drift_report: the stored report, else a placeholder
GetDriftReport(report, t) ==
    IF report # None THEN Val(report)
    ELSE [drift_detected |-> FALSE, drift_score |-> 0, message |-> "No analysis yet",
          timestamp |-> t]

\* set_reference_data(df)
SetReferenceData ==
    \E df \in Frames :
        /\ reference_data' = Some(df)
        /\ call' = "set_reference_data"
        /\ returned' = None
        /\ args' = NoArgs
        /\ UNCHANGED <<now, prediction_history, file, remote, serial, faults, traced,
                       session, threadVars, schedVars, summary, predictVars, pipeVars, drift_report>>

\* detect_drift: whether it raises, what it returns, and the report it stores
\* (None when it stores none)
DetectOutcome(reference, current_data, feature_columns, library, score, t) ==
    IF reference = None
    THEN [raises |-> FALSE, returns |-> Some(NoReferenceReport(t)), stores |-> None]
    ELSE LET ref == Val(reference) IN
         CASE library = "no_scipy" ->
                [raises |-> TRUE, returns |-> None, stores |-> None]
           [] library = "no_deepchecks" ->
                LET report == SimpleDriftDetection(ref, current_data, feature_columns, t)
                IN  [raises |-> FALSE, returns |-> Some(report), stores |-> Some(report)]
           [] library = "deepchecks" /\ feature_columns \subseteq DOMAIN ref
                                     /\ feature_columns \subseteq DOMAIN current_data ->
                [raises |-> FALSE, returns |-> Some(DeepchecksReport(score, t)),
                 stores |-> Some(DeepchecksReport(score, t))]
           [] OTHER ->
                [raises |-> FALSE, returns |-> Some(ErrorReport(t)), stores |-> None]

\* detect_drift(current_data, feature_columns)
DetectDrift ==
    \E current_data \in Frames, feature_columns \in SUBSET Columns,
       library \in Libraries, score \in Scores :
        LET out == DetectOutcome(reference_data, current_data, feature_columns, library,
                                 score, now)
        IN  /\ returned' = out.returns
            /\ call' = IF out.raises THEN "detect_raised" ELSE "detect_drift"
            /\ drift_report' = IF out.stores = None THEN drift_report ELSE out.stores
            /\ args' = NoArgs
            /\ UNCHANGED <<now, prediction_history, file, remote, serial, faults, traced,
                           session, threadVars, schedVars, summary, predictVars, pipeVars,
                           reference_data>>

\* get_drift_report()
AskDriftReport ==
    /\ returned' = Some(GetDriftReport(drift_report, now))
    /\ call' = "get_drift_report"
    /\ args' = NoArgs
    /\ UNCHANGED <<now, prediction_history, file, remote, serial, faults, traced,
                   session, threadVars, schedVars, summary, predictVars, pipeVars,
                   reference_data, drift_report>>

----------------------------------------------------------------------------
(* Alerts (app/alerts.py) *)

\* alert_history = deque(maxlen=100)
ALERT_MAXLEN == 100

\* x / base * 100 > pct, for x >= 0 and base > 0
ExceedsPct(x, base, pct) == x > (pct * base) \div 100

Pow10(n) == IF n = 0 THEN 1 ELSE IF n = 1 THEN 10 ELSE IF n = 2 THEN 100
            ELSE IF n = 3 THEN 1000 ELSE 10000

\* round(a / b * 10^n) for a >= 0 and b > 0, digit by digit
RECURSIVE Scaled(_, _, _)
Scaled(a, b, n) ==
    IF n = 0 THEN RoundRatio(a, b)
    ELSE (a \div b) * Pow10(n) + Scaled((a % b) * 10, b, n - 1)

\* round(x / base * 100, 2) in hundredths of a percent, signed
Percent2(x, base) == IF x < 0 THEN -Scaled(-x, base, 4) ELSE Scaled(x, base, 4)

\* no inference_pipeline run yet
NoCycle == [created |-> None, scanned |-> {}]

NoAlertArgs == [current_price |-> 0, previous_price |-> 0, prediction |-> None,
                volatility |-> None]

\* the price change rule firing at 5 percent already
PriceChangeFires_AtFive(current_price, previous_price) ==
    /\ previous_price > 0
    /\ Abs(current_price - previous_price) * 100 >= 5 * previous_price

\* lines 23-26: the price change rule
PriceChangeFires(current_price, previous_price) ==
    /\ previous_price > 0
    /\ ExceedsPct(Abs(current_price - previous_price), previous_price, 5)

\* lines 27-36
PriceChangeAlert(current_price, previous_price, t) ==
    [type |-> "price_change",
     severity |-> IF ExceedsPct(Abs(current_price - previous_price), previous_price, 10)
                  THEN "high" ELSE "medium",
     current_price |-> current_price,
     previous_price |-> previous_price,
     change_percent |-> Percent2(current_price - previous_price, previous_price),
     timestamp |-> t]

\* line 40: volatility is in ten-thousandths
VolatilityFires(volatility) == volatility # None /\ Val(volatility) > 5000

\* lines 41-47
VolatilityAlert(volatility, t) ==
    [type |-> "high_volatility",
     severity |-> IF Val(volatility) > 8000 THEN "high" ELSE "medium",
     volatility |-> Val(volatility),
     timestamp |-> t]

\* prediction.get("predicted_price", 0) of a truthy prediction, else 0
PredictedOf(prediction) ==
    IF prediction = None THEN 0 ELSE Get(Val(prediction), "predicted_price")

\* lines 51-55: the deviation rule; the division is by current_price
DeviationFires(current_price, prediction) ==
    /\ PredictedOf(prediction) > 0
    /\ ExceedsPct(Abs(current_price - PredictedOf(prediction)), current_price, 3)

\* lines 56-64
DeviationAlert(current_price, prediction, t) ==
    [type |-> "prediction_deviation",
     severity |-> "medium",
     current_price |-> current_price,
     predicted_price |-> PredictedOf(prediction),
     deviation_percent |-> Percent2(Abs(current_price - PredictedOf(prediction)),
                                    current_price),
     timestamp |-> t]

\* line 54 divides by current_price
CheckAlertsRaises(current_price, prediction) ==
    PredictedOf(prediction) > 0 /\ current_price = 0

\* lines 20-65: the list check_alerts builds
CheckAlertsList(current_price, previous_price, prediction, volatility, t) ==
    (IF PriceChangeFires(current_price, previous_price)
     THEN <<PriceChangeAlert(current_price, previous_price, t)>> ELSE <<>>)
    \o (IF VolatilityFires(volatility) THEN <<VolatilityAlert(volatility, t)>> ELSE <<>>)
    \o (IF DeviationFires(current_price, prediction)
        THEN <<DeviationAlert(current_price, prediction, t)>> ELSE <<>>)

\* lines 67-69: alert_history.append of every alert of the list
AlertExtend(q, items) == LastN(q \o items, ALERT_MAXLEN)

\* prices, predictions and volatilities check_alerts is called with
AlertPrices == {50400000}
AlertPrevious == {0, 48000000, 47000000, 45000000}
AlertPredictions == {None, Some([predicted_price |-> 52000000]),
                     Some([predicted_price |-> 48888000])}
AlertVolatilities == {None, Some(5000), Some(6000), Some(9000)}

\* check_alerts(current_price, previous_price, prediction, volatility)
CheckAlerts ==
    \E current_price \in AlertPrices, previous_price \in AlertPrevious,
       prediction \in AlertPredictions, volatility \in AlertVolatilities :
        LET list == CheckAlertsList(current_price, previous_price, prediction,
                                    volatility, now)
        IN  /\ Len(alert_history) + Len(list) <= MaxAlerts
            /\ alert_args' = [current_price |-> current_price,
                              previous_price |-> previous_price,
                              prediction |-> prediction, volatility |-> volatility]
            /\ IF CheckAlertsRaises(current_price, prediction)
               THEN /\ call' = "check_alerts_raised"
                    /\ alerts' = <<>>
                    /\ UNCHANGED alert_history
               ELSE /\ call' = "check_alerts"
                    /\ alerts' = list
                    /\ alert_history' = AlertExtend(alert_history, list)
            /\ args' = NoArgs
            /\ UNCHANGED <<now, prediction_history, file, remote, serial, faults, traced,
                           session, threadVars, schedVars, summary, predictVars, driftVars,
                           cycle, trainVars, loopVars>>

----------------------------------------------------------------------------
(* The inference pipeline (pipelines/inference_pipeline.py) *)

\* usd_24h_change values the exchange API can report, percent
RawChange == {0, 10}

\* fetch_current_price()["change_24h"]: round(price * change / 100, 2)
Change24h(raw, change) == Round2((raw * change) \div 100)

\* features['volatility'].iloc[-1], None when the column is absent
Volatilities == {None}

\* inference_pipeline(): get_current_data and prepare_features, run_prediction,
\* validate_past_predictions, check_for_alerts, in the order of lines 84-97
InferencePipeline ==
    \E data_ok \in BOOLEAN, rawSpot \in RawSpot, change \in RawChange,
       estimate \in {None} \cup { Some(e) : e \in RawEstimate },
       fetched \in BOOLEAN, path \in PricePaths, volatility \in Volatilities,
       met1 \in SaveOutcomes, met2 \in SaveOutcomes :
        LET current_price == FetchCurrentPrice(rawSpot)
            change_24h == Change24h(rawSpot, change)
            made == ~PredictionUnavailable(TRUE, estimate, current_price)
            entry == NewEntry(now, serial + 1, current_price, Val(estimate))
            prediction == IF made THEN Some(Returned(entry)) ELSE None
            h1 == IF made THEN StorePrediction(prediction_history, entry, met1)
                  ELSE prediction_history
            file1 == IF made THEN WriteFile(file, h1, met1[1]) ELSE file
            remote1 == IF made THEN SyncPredictionsToHopsworks(remote, h1, met1[2])
                       ELSE remote
            faults1 == IF met1 = <<"ok", TRUE>> THEN faults ELSE faults + 1
            price_dict == PriceDict(fetched, path, 0, now)
            fallback == Some(current_price)
            raises == LoopRaises(h1, price_dict, fallback, now)
            h2 == ValidateLoop(h1, price_dict, fallback, now)
            list == CheckAlertsList(current_price, current_price - change_24h,
                                    prediction, volatility, now)
        IN  /\ ~fetched => path = FlatPath
            /\ ~made => met1 = <<"ok", TRUE>>
            /\ made => InHorizon
            /\ met1 = <<"ok", TRUE>> \/ faults < MaxFaults
            /\ met2 = <<"ok", TRUE>> \/ faults1 < MaxFaults
            /\ Len(alert_history) + Len(list) <= MaxAlerts
            /\ args' = NoArgs
            /\ IF ~data_ok
               THEN /\ met1 = <<"ok", TRUE>> /\ met2 = <<"ok", TRUE>>
                    /\ estimate = None /\ fetched /\ path = FlatPath
                    /\ volatility = None /\ change = 0
                    /\ call' = "inference_raised"
                    /\ UNCHANGED <<prediction_history, file, remote, serial, session, faults,
                                   alertVars, cycle>>
               ELSE /\ prediction_history' = h2
                    /\ serial' = IF made THEN serial + 1 ELSE serial
                    /\ session' = IF made THEN Append(session, entry.timestamp) ELSE session
                    /\ cycle' = [created |-> IF made THEN Some(entry.timestamp) ELSE None,
                                 scanned |-> { h1[i].timestamp : i \in 1..Len(h1) }]
                    /\ IF raises
                       THEN /\ met2 = <<"ok", TRUE>>
                            /\ file' = file1 /\ remote' = remote1 /\ faults' = faults1
                            /\ call' = "inference_raised"
                            /\ UNCHANGED alertVars
                       ELSE /\ file' = WriteFile(file1, h2, met2[1])
                            /\ remote' = SyncPredictionsToHopsworks(remote1, h2, met2[2])
                            /\ faults' = IF met2 = <<"ok", TRUE>> THEN faults1
                                         ELSE faults1 + 1
                            /\ alert_args' = [current_price |-> current_price,
                                              previous_price |-> current_price - change_24h,
                                              prediction |-> prediction,
                                              volatility |-> volatility]
                            /\ IF CheckAlertsRaises(current_price, prediction)
                               THEN /\ call' = "inference_raised"
                                    /\ UNCHANGED <<alert_history, alerts>>
                               ELSE /\ call' = "inference_pipeline"
                                    /\ alerts' = list
                                    /\ alert_history' = AlertExtend(alert_history, list)
            /\ UNCHANGED <<now, traced, threadVars, schedVars, summary, predictVars,
                           driftVars, trainVars, loopVars>>

----------------------------------------------------------------------------
(* The training pipeline (pipelines/training_pipeline.py) as the scheduler   *)
(* runs it (scheduler._run_training_pipeline)                                *)

\* load_features: the minimum number of feature rows
MIN_FEATURE_ROWS == 50

\* len(df) of the frame fetch_features returns, -1 when it returns None
RowCounts == {-1, MIN_FEATURE_ROWS - 1, MIN_FEATURE_ROWS}

\* the bundle train_all_models makes
TrainedBundle == <<"xgboost", "random_forest", "classifier", "kmeans", "pca">>

NoTraining == [rows |-> 0, fitted |-> FALSE, error |-> ""]

\* load_features accepting any frame that is not None
LoadFeaturesRaises_NoMinimum(rows) == rows = -1

\* lines 24-26: load_features raises ValueError
LoadFeaturesRaises(rows) == rows = -1 \/ rows < MIN_FEATURE_ROWS

\* scheduler._reload_models: _loaded is cleared, then set again when the
\* registry gives a bundle
ReloadModels(loader, registry_up, versions) ==
    IF registry_up /\ versions # {}
    THEN [loaded |-> TRUE, models |-> TrainedBundle]
    ELSE [loaded |-> FALSE, models |-> loader.models]

\* the frames fetch_features gives: every feature column is present
TrainingFrames == [Columns -> {0, 1}]

\* how the drift check of a run goes: the library at hand and its score
DriftRuns == {<<"deepchecks", 100>>, <<"deepchecks", 450>>, <<"deepchecks_raises", 100>>,
              <<"no_deepchecks", 100>>, <<"no_scipy", 100>>}

\* how the steps after the drift check go
TrainingRuns == {"training_raises", "save_raises", "registry_down", "ok"}

\* lines 162-163 raising: the except clause of _run_training_pipeline logs
\* the error, _reload_models is not reached
TrainingAborted(rows) ==
    /\ training' = [rows |-> rows, fitted |-> FALSE, error |-> "insufficient_features"]
    /\ call' = "run_training_error"
    /\ UNCHANGED <<active_dir, registered, driftVars, model_loader>>

\* lines 165-184, then _reload_models
TrainingContinued(rows, features_df, library, score, run) ==
    LET version == Cardinality(registered) + 1
        drift == DetectOutcome(reference_data, features_df, DOMAIN features_df,
                               library, score, now)
        error == CASE drift.raises            -> "drift_check"
                   [] run = "training_raises" -> "training"
                   [] run = "save_raises"     -> "save"
                   [] OTHER                   -> ""
        registry_up == run # "registry_down"
    IN  /\ training' = [rows |-> rows, fitted |-> ~drift.raises, error |-> error]
        /\ drift_report' = IF drift.stores # None THEN drift.stores ELSE drift_report
        /\ UNCHANGED returned
        /\ IF error # ""
           THEN /\ call' = "run_training_error"
                /\ UNCHANGED <<active_dir, registered, reference_data, model_loader>>
           ELSE /\ call' = "run_training"
                /\ active_dir' = Some(version)
                /\ registered' = IF registry_up THEN registered \cup {version}
                                 ELSE registered
                /\ reference_data' = Some(features_df)
                /\ model_loader' = ReloadModels(model_loader, registry_up, registered')

\* _run_training_pipeline(): training_pipeline() inside try/except, then
\* _reload_models()
RunTrainingPipeline ==
    \E rows \in RowCounts :
        /\ Cardinality(registered) < MaxTrainings
        /\ IF LoadFeaturesRaises(rows)
           THEN TrainingAborted(rows)
           ELSE \E features_df \in TrainingFrames, drift \in DriftRuns,
                   run \in TrainingRuns :
                    TrainingContinued(rows, features_df, drift[1], drift[2], run)
        /\ args' = NoArgs
        /\ UNCHANGED <<now, prediction_history, file, remote, serial, faults, traced,
                       session, threadVars, schedVars, summary, result, inputs,
                       alertVars, cycle, loopVars>>

----------------------------------------------------------------------------
(* Starting and stopping the scheduler (app/scheduler.py, lines 113-130)     *)

\* the threads that call start_scheduler and stop_scheduler
Callers == {"main", "other"}

\* the positions of a loop thread at which a pipeline is running
Running == {"first_inference", "pipelines"}

\* what is unchanged by every step of this section
LoopFrame == UNCHANGED <<ledgerVars, threadVars, schedVars, summary, predictVars,
                         driftVars, alertVars, cycle, trainVars>>

\* start_scheduler, lines 117-118: the test of _scheduler_running
StartTest(c) ==
    /\ caller_pc[c] = "idle"
    /\ caller_pc' = [caller_pc EXCEPT ![c] = IF scheduler_running THEN "idle" ELSE "set"]
    /\ UNCHANGED <<scheduler_running, loop_threads>>
    /\ LoopFrame

\* start_scheduler, lines 120-122: the flag is set and a new thread started,
\* which calls _run_inference_pipeline (line 93)
StartSet(c) ==
    /\ caller_pc[c] = "set"
    /\ Len(loop_threads) < MaxLoops
    /\ scheduler_running' = TRUE
    /\ loop_threads' = Append(loop_threads, "first_inference")
    /\ caller_pc' = [caller_pc EXCEPT ![c] = "idle"]
    /\ LoopFrame

\* stop_scheduler, line 129
StopScheduler(c) ==
    /\ caller_pc[c] = "idle"
    /\ scheduler_running' = FALSE
    /\ UNCHANGED <<loop_threads, caller_pc>>
    /\ LoopFrame

\* line 95: the while test of a loop thread, after the first inference run
\* or after time.sleep(30)
LoopTest(i) ==
    /\ loop_threads[i] \in {"first_inference", "sleep"}
    /\ loop_threads' = [loop_threads EXCEPT ![i] = IF scheduler_running THEN "pipelines"
                                                   ELSE "exited"]
    /\ UNCHANGED <<scheduler_running, caller_pc>>
    /\ LoopFrame

\* lines 96-110: the due pipelines have run, the thread sleeps
LoopSleep(i) ==
    /\ loop_threads[i] = "pipelines"
    /\ loop_threads' = [loop_threads EXCEPT ![i] = "sleep"]
    /\ UNCHANGED <<scheduler_running, caller_pc>>
    /\ LoopFrame

----------------------------------------------------------------------------
(* Initial states and specifications *)

\* a record written by a version of the program that stored no target_timestamp_ms
LegacyEntry ==
    [ timestamp           |-> IsoFormat(0, 0),
      target_timestamp    |-> IsoFormat(PREDICTION_MINUTES, 0),
      current_price       |-> 50000000,
      predicted_price     |-> 50600000,
      predicted_direction |-> "up",
      actual_price        |-> None,
      was_correct         |-> None,
      error_amount        |-> None,
      validated_at        |-> None ]

InitialFiles == { FileAbsent, [state |-> "ok", data |-> <<LegacyEntry>>] }

\* the file of a ledger at capacity: one pending record per refresh interval
\* before the start
PastEntry(i) ==
    NewEntry(-PREDICTION_REFRESH_MINUTES * (MAXLEN + 1 - i), -(MAXLEN + 1 - i),
             50000000, 50600000)

FullFile == [state |-> "ok", data |-> JsonDump([i \in 1..MAXLEN |-> PastEntry(i)])]

\* a record validated with a realized price equal to the predicted one
ExactHit ==
    Written(NewEntry(-PREDICTION_MINUTES, -1, 50000000, FlatPath[0]), FlatPath[0], 0)

SummaryFiles == { FileAbsent,
                  [state |-> "ok", data |-> <<ExactHit>>],
                  [state |-> "ok", data |-> <<ExactHit, LegacyEntry>>] }

\* no thread is inside a ledger operation
ThreadsIdle ==
    /\ pc = [th \in Threads |-> "idle"]
    /\ locals = NoLocals

\* _scheduler_loop has just been entered: lines 83-85
SchedulerEntered ==
    /\ clock = StartTime
    /\ sched_pc = "start"
    /\ until = StartTime
    /\ current_time = 0
    /\ last_feature_time = 0
    /\ last_training_time = 0
    /\ last_inference_time = 0
    /\ unit_exc = ""
    /\ logged_errors = {}

\* the process has just been started on a machine with one of the files, where
\* storage has already failed `spent` times
Started(files, spent) ==
    /\ now = 0
    /\ file \in files
    /\ prediction_history = StartupLoad(file)
    /\ remote = {}
    /\ serial = 0
    /\ session = Timestamps(prediction_history)
    /\ call = "restart_remote_down"
    /\ faults = spent
    /\ args = NoArgs
    /\ ThreadsIdle
    /\ SchedulerEntered
    /\ summary = None
    /\ model_loader = NotLoaded
    /\ result = None
    /\ inputs = NoInputs
    /\ reference_data = None
    /\ drift_report = None
    /\ returned = None
    /\ alert_history = <<>>
    /\ alerts = <<>>
    /\ alert_args = NoAlertArgs
    /\ cycle = NoCycle
    /\ active_dir = None
    /\ registered = {}
    /\ training = NoTraining
    /\ scheduler_running = FALSE
    /\ loop_threads = <<>>
    /\ caller_pc = [c \in Callers |-> "idle"]

Init == Started(InitialFiles, 0) /\ traced = FALSE

\* storage works throughout: every save meets <<"ok", TRUE>>
InitTraced == Started(InitialFiles, MaxFaults) /\ traced = TRUE

InitFull == Started({FullFile}, 0) /\ traced = FALSE

\* storage works throughout
InitSummary == Started(SummaryFiles, MaxFaults) /\ traced = FALSE

Next ==
    \/ GeneratePrediction
    \/ ValidatePredictions
    \/ Restart
    \/ Tick

\* appends and rehydration only
NextFull ==
    \/ GeneratePrediction
    \/ Restart
    \/ Tick

\* the ledger calls and the accuracy summary
NextSummary ==
    \/ GeneratePrediction
    \/ ValidatePredictions
    \/ Restart
    \/ Tick
    \/ AskAccuracy

\* predictions made model by model
NextPredict == GeneratePredictionWithModels

\* the drift detector and the clock
NextDrift ==
    \/ SetReferenceData
    \/ DetectDrift
    \/ AskDriftReport
    \/ Tick

\* inference cycles and the clock
NextCycle ==
    \/ InferencePipeline
    \/ Tick

\* calls of start_scheduler and stop_scheduler, and the loop threads
NextLoops ==
    \/ \E c \in Callers : StartTest(c)
    \/ \E c \in Callers : StartSet(c)
    \/ \E c \in Callers : StopScheduler(c)
    \/ \E i \in DOMAIN loop_threads : LoopTest(i)
    \/ \E i \in DOMAIN loop_threads : LoopSleep(i)

\* training runs and the clock
NextTraining ==
    \/ RunTrainingPipeline
    \/ Tick

\* calls of check_alerts
NextAlerts == CheckAlerts

NextThreads ==
    \/ StorePredictionAppend
    \/ StorePredictionSave
    \/ ValidateBegin
    \/ ValidateStep
    \/ ValidateWrite
    \/ ValidateSave
    \/ Tick

NextSched ==
    \/ RunFirstInference
    \/ EndFirstInference
    \/ LoopTop
    \/ CheckFeature
    \/ EndFeature
    \/ CheckTraining
    \/ EndTraining
    \/ CheckInference
    \/ EndInference
    \/ Wake
    \/ RunScheduledJob
    \/ Advance

\* one call at a time on the ledger
Spec == Init /\ [][Next]_vars

\* the same calls with the inputs of each validation pass recorded, on storage
\* that works
SpecTraced == InitTraced /\ [][Next]_vars

\* appends and restarts of a process started with a ledger at capacity
SpecFull == InitFull /\ [][NextFull]_vars

\* the ledger calls and get_prediction_accuracy, on storage that works
SpecSummary == InitSummary /\ [][NextSummary]_vars

\* generate_prediction with the models it loads and asks
InitPredict == Started({FileAbsent}, MaxFaults) /\ traced = FALSE

SpecPredict == InitPredict /\ [][NextPredict]_vars

\* the drift detector, from the import of the module
SpecDrift == InitPredict /\ [][NextDrift]_vars

\* inference cycles, one at a time, with storage that works throughout
SpecCycle == InitPredict /\ [][NextCycle]_vars

\* the scheduler started and stopped from two threads
SpecLoops == InitPredict /\ [][NextLoops]_vars

\* scheduled training runs
SpecTraining == InitPredict /\ [][NextTraining]_vars

\* the alert ledger, from the import of the module
SpecAlerts == InitPredict /\ [][NextAlerts]_vars

\* the scheduled inference thread and an HTTP validation thread
SpecThreads == Init /\ [][NextThreads]_vars

\* the background scheduler thread
SpecSched == Init /\ [][NextSched]_vars

----------------------------------------------------------------------------
(* Properties of the ledger *)

ValidationFields(entry) ==
    <<entry.actual_price, entry.was_correct, entry.error_amount, entry.validated_at,
      Get(entry, "validation_note")>>

Restarts == {"restart_remote_up", "restart_remote_down"}

\* C1: One-way transition.  In every step of a running process, validation
\* passes included, a record that is validated and stays in the ledger keeps
\* all its validation fields (actual_price, was_correct, error_amount,
\* validated_at, validation_note), so it never becomes pending again.
C1_OneWayTransition ==
    [][ call' \notin Restarts =>
          \A i \in DOMAIN prediction_history : \A j \in DOMAIN prediction_history' :
              ( /\ Validated(prediction_history[i])
                /\ prediction_history'[j].timestamp = prediction_history[i].timestamp )
              => ValidationFields(prediction_history'[j])
                     = ValidationFields(prediction_history[i]) ]_vars

\* a validation pass has run over a record that an earlier pass validated
C1_Witness ==
    /\ call \in {"validate_returned", "validate_fallback"}
    /\ \E i \in DOMAIN prediction_history :
          /\ Validated(prediction_history[i])
          /\ Val(prediction_history[i].validated_at) < now

\* the realized move of a validated record, from its stored fields, is below
\* the tolerance threshold
StoredMoveWithinTolerance(entry) ==
    Abs(Val(entry.actual_price) - entry.current_price)
        <= (entry.current_price - 1) \div 1000

\* C2: Tolerance invariant.  Every validated record whose realized move
\* abs(actual_price - price_at_creation) / price_at_creation * 100 is below the
\* tolerance has was_correct = false and validation_note =
\* price_within_tolerance, whatever the sign of the move.
C2_ToleranceInvariant ==
    \A i \in DOMAIN prediction_history :
        LET entry == prediction_history[i] IN
        (Validated(entry) /\ StoredMoveWithinTolerance(entry))
        => /\ entry.was_correct = Some(FALSE)
           /\ Get(entry, "validation_note") = Some("price_within_tolerance")

\* a record predicted up whose price did move up, by less than the tolerance
C2_Witness ==
    \E i \in DOMAIN prediction_history :
        LET entry == prediction_history[i] IN
        /\ Validated(entry)
        /\ StoredMoveWithinTolerance(entry)
        /\ entry.predicted_direction = "up"
        /\ Val(entry.actual_price) > entry.current_price
        /\ entry.was_correct = Some(FALSE)

\* the step validates the pending record at position i
BecomesValidated(i) ==
    /\ Pending(prediction_history[i])
    /\ \E j \in DOMAIN prediction_history' :
          /\ prediction_history'[j].timestamp = prediction_history[i].timestamp
          /\ Validated(prediction_history'[j])

\* C4 as claimed: a record changes from pending to validated only in a pass
\* whose wall-clock time is at or after the record's target time.
C4_ValidatedOnlyAfterTarget ==
    [][ \A i \in DOMAIN prediction_history :
            BecomesValidated(i) => now >= Val(TargetOf(prediction_history[i])) ]_vars

\* C5: Validation is never forced.  In a validation pass, a pending record with
\* no price-history point within 5 minutes of its target time is left exactly as
\* it was, unless the wall clock has reached the target time and a fallback
\* current_price was supplied; then the fallback is its realized price.
C5_NeverForced ==
    [][ args' # NoArgs =>
          \A i \in DOMAIN prediction_history :
              LET entry == prediction_history[i]
                  target == TargetOf(entry)
              IN  ( /\ Pending(entry)
                    /\ target # None
                    /\ \A u \in args'.points : Abs(u - Val(target)) > WINDOW_MINUTES )
                  => IF now >= Val(target) /\ args'.current_price # None
                     THEN /\ Validated(prediction_history'[i])
                          /\ prediction_history'[i].actual_price
                                 = Some(Round2(Val(args'.current_price)))
                     ELSE prediction_history'[i] = entry ]_vars

\* a pass has just taken the fallback price for a record past its target time
C5_Witness ==
    /\ call = "validate_fallback"
    /\ \E i \in DOMAIN prediction_history :
          /\ Validated(prediction_history[i])
          /\ Val(prediction_history[i].validated_at) = now
          /\ now >= Val(TargetOf(prediction_history[i]))

\* C9: validate_predictions never raises to its caller, and a pass whose
\* price-history fetch failed and that got no fallback changes no record.
C9_ValidateNeverRaises ==
    /\ [](call # "validate_raised")
    /\ [][ call' = "validate_noop" => prediction_history' = prediction_history ]_vars

\* C3: Bounded ledger.  The ledger never holds more than MAXLEN records, and
\* it holds exactly the last MAXLEN of the records appended or rehydrated in
\* this process, in insertion order: the oldest is evicted first, pending or not.
C3_BoundedLedger ==
    /\ Len(prediction_history) <= MAXLEN
    /\ Timestamps(prediction_history) = LastN(session, MAXLEN)

\* a record was appended to a ledger at capacity and the oldest record, still
\* pending, was evicted
C3_Witness ==
    /\ call = "generate_record"
    /\ Len(session) = MAXLEN + 1
    /\ Len(prediction_history) = MAXLEN
    /\ prediction_history[1].timestamp = session[2]
    /\ \A i \in DOMAIN prediction_history : Pending(prediction_history[i])

\* the identity of a record: the instant of its timestamp, whatever its type
RecordIds(h) == { <<Minute(h[i].timestamp), Serial(h[i].timestamp)>> : i \in DOMAIN h }

\* the last save wrote the whole ledger to the file and every record of it is
\* a row of the feature group
Persisted ==
    /\ prediction_history # <<>>
    /\ file = [state |-> "ok", data |-> JsonDump(prediction_history)]
    /\ \A i \in DOMAIN prediction_history :
          \E r \in remote : r.timestamp = prediction_history[i].timestamp

\* C6: Round trip.  Once the ledger is persisted, rehydrating from the local
\* file and rehydrating from the remote store each give the same records in
\* the same oldest-to-newest order with every field equal.
C6_RoundTrip ==
    Persisted
    => /\ StartupLoad(file) = prediction_history
       /\ LoadPredictionsFromFileResult(<<>>, file, remote, TRUE, now) = prediction_history

\* what C7 lets a process start with: the records the remote store returns, else
\* those of the local file, else none
RehydrationSource(f, rows, up, t) ==
    LET hopsworks_predictions ==
            FetchPredictionsFromHopsworks(rows, up, FETCH_LIMIT, FETCH_HOURS, t)
    IN  IF hopsworks_predictions # <<>> THEN RecordIds(hopsworks_predictions)
        ELSE IF f.state = "ok" THEN RecordIds(LastN(JsonLoad(f.data), MAXLEN))
        ELSE {}

\* C7: Rehydration source order.  A process that has just started holds the
\* remote store's most recent records when the store is reachable and
\* non-empty, otherwise the local file's, otherwise none, and each record once.
C7_RehydrationOrder ==
    call \in Restarts
    => /\ RecordIds(prediction_history)
              = RehydrationSource(file, remote, call = "restart_remote_up", now)
       /\ Cardinality(RecordIds(prediction_history)) = Len(prediction_history)

\* C8: Ledger operations are mutually exclusive.  No record is appended to the
\* ledger while a validation pass of another thread is inside its scan of the
\* ledger or about to write its snapshot.
C8_MutualExclusion ==
    [][ Len(session') > Len(session) => pc["http"] = "idle" ]_vars

\* C10: A retrain does not block scheduled inference.  In the background
\* scheduler loop, no training run is in progress at a time when the
\* inference interval has elapsed since inference last ran.
C10_InferenceNotBlocked ==
    ~( /\ sched_pc = "in_training"
       /\ clock - last_inference_time >= INFERENCE_INTERVAL )

\* the direction of the realized move of a validated record, from its stored fields
StoredDirection(entry) ==
    IF Val(entry.actual_price) > entry.current_price THEN "up" ELSE "down"

\* C11: Directional scoring.  Every validated record whose realized move is at
\* or above the tolerance has was_correct true exactly when the sign of
\* actual_price - price_at_creation is its predicted_direction, and has
\* validation_note = direction_validated.
C11_DirectionalScoring ==
    \A i \in DOMAIN prediction_history :
        LET entry == prediction_history[i] IN
        (Validated(entry) /\ ~StoredMoveWithinTolerance(entry))
        => /\ entry.was_correct = Some(StoredDirection(entry) = entry.predicted_direction)
           /\ Get(entry, "validation_note") = Some("direction_validated")

\* the ledger holds an up prediction scored false on a fall beyond the tolerance
\* and one scored true on a rise beyond it
C11_Witness ==
    \E i, j \in DOMAIN prediction_history :
        LET miss == prediction_history[i]
            hit == prediction_history[j]
        IN  /\ Validated(miss) /\ ~StoredMoveWithinTolerance(miss)
            /\ miss.predicted_direction = "up" /\ StoredDirection(miss) = "down"
            /\ miss.was_correct = Some(FALSE)
            /\ Validated(hit) /\ ~StoredMoveWithinTolerance(hit)
            /\ hit.predicted_direction = "up" /\ StoredDirection(hit) = "up"
            /\ hit.was_correct = Some(TRUE)

\* the validated records of the ledger
ValidatedRecords == SelectSeq(prediction_history, Validated)

\* C12: Accuracy on no validated data.  Whenever the ledger is empty or holds
\* only pending records, get_prediction_accuracy returns accuracy 0 and
\* validated_count 0.
C12_AccuracyWithoutValidated ==
    (call = "get_prediction_accuracy" /\ ValidatedRecords = <<>>)
    => /\ Val(summary).accuracy = 0
       /\ Val(summary).validated_count = 0

\* the summary was asked for on a ledger that holds pending records only
C12_Witness ==
    /\ call = "get_prediction_accuracy"
    /\ prediction_history # <<>>
    /\ ValidatedRecords = <<>>
    /\ Val(summary).accuracy = 0

\* the mean of error_amount over the validated records that have one
MeanError ==
    LET HasError(entry) == entry.error_amount # None
        with == SelectSeq(ValidatedRecords, HasError)
    IN  RoundedMean([i \in 1..Len(with) |-> Val(with[i].error_amount)])

\* C13: Average error.  Whenever at least one record is validated, the
\* avg_error that get_prediction_accuracy returns is the mean of error_amount
\* over all validated records whose error_amount is not null, those whose
\* error_amount is exactly 0 included.
C13_AverageError ==
    (call = "get_prediction_accuracy" /\ ValidatedRecords # <<>>)
    => Val(summary).avg_error = MeanError

\* a call of generate_prediction has just returned
Generated == call \in {"generate_none", "generate_record"}

\* C14: a call of generate_prediction that returns None, or in which the models
\* could not be loaded, the features or the regime models raised, every
\* regressor raised or the price was zero, appends nothing to the ledger and
\* writes neither the ledger file nor the remote store.
C14_UnavailableLeavesLedger ==
    [][(Generated' /\ (result' = None \/ inputs'.failures # {}))
        => (result' = None /\ UNCHANGED <<prediction_history, file, remote>>)]_vars

\* a call returned None because every regressor raised, after an earlier call
\* had appended a record
C14_Witness ==
    /\ call = "generate_none"
    /\ result = None
    /\ inputs.failures = {"no_model_answered"}
    /\ Len(prediction_history) > 0

C16_ConfidenceRange ==
    \A i \in 1..Len(prediction_history) :
        "confidence" \in DOMAIN prediction_history[i]
            => /\ prediction_history[i].confidence >= 500
               /\ prediction_history[i].confidence <= 950

\* a save that met a failure has just been made
SaveReturned == {"generate_record", "validate_returned", "validate_fallback"}

\* C17: when the file write or the remote sync fails in the save of an append
\* or of a validation pass, the call returns as it does on success, the
\* appended record is the last of the ledger, and no record of the ledger
\* loses its validation.
C17_PersistenceFailuresSwallowed ==
    [][faults' > faults
        => /\ call' \in SaveReturned
           /\ call' = "generate_record"
                => /\ prediction_history' # <<>>
                   /\ prediction_history'[Len(prediction_history')].timestamp
                        = IsoFormat(now, serial')
           /\ call' # "generate_record"
                => /\ Len(prediction_history') = Len(prediction_history)
                   /\ \A i \in 1..Len(prediction_history) :
                        Validated(prediction_history[i])
                            => prediction_history'[i] = prediction_history[i]]_vars

\* a validation pass validated a record in memory and its file write broke off
C17_Witness ==
    /\ call \in {"validate_returned", "validate_fallback"}
    /\ file.state = "partial"
    /\ \E i \in 1..Len(prediction_history) :
          prediction_history[i].validated_at = Some(now)

\* C18: at every instant the ledger file, once written, holds a complete JSON
\* array of records: it is never left truncated or partly written.
C18_CrashSafeFile == file.state \in {"absent", "ok"}

\* C19: after a call of detect_drift, whatever its outcome, get_drift_report
\* returns the report that call returned.
C19_ReportReplacedOnEveryRun ==
    [][(call = "detect_drift" /\ call' = "get_drift_report") => returned' = returned]_vars

\* C20: the reference is unset until set_reference_data is called and set ever
\* after; detect_drift without a reference returns a report with
\* drift_detected false and score 0, does not raise and leaves the reference
\* unset; detect_drift never changes the reference.
C20_DetectorStateMachine ==
    [][/\ reference_data' # reference_data => call' = "set_reference_data"
       /\ call' = "set_reference_data" => reference_data' # None
       /\ reference_data # None => reference_data' # None
       /\ (reference_data = None /\ call' \in {"detect_drift", "detect_raised"})
            => /\ call' = "detect_drift"
               /\ returned' # None
               /\ ~Val(returned').drift_detected
               /\ Val(returned').drift_score = 0
               /\ reference_data' = None]_vars

\* detect_drift has returned while no reference was set
C20_Witness ==
    /\ call = "detect_drift"
    /\ reference_data = None
    /\ returned = Some(NoReferenceReport(now))

\* C24: in every record of the ledger made by generate_prediction, model_used
\* is a key of all_predictions and its estimate is the predicted_price.
C24_ModelUsedProduced ==
    \A i \in 1..Len(prediction_history) :
        LET r == prediction_history[i] IN
        "model_used" \in DOMAIN r
            => /\ r.model_used \in DOMAIN r.all_predictions
               /\ r.all_predictions[r.model_used] = r.predicted_price

\* the direction the classifier of the last call gave
ClassifierDirection == IF inputs.classifier.pred = 1 THEN "up" ELSE "down"

\* the direction the prices of the returned record give
PriceDirection ==
    IF Val(result).predicted_price > Val(result).current_price THEN "up" ELSE "down"

C30_SummaryTotal ==
    call = "get_prediction_accuracy"
        => /\ Val(summary).total_predictions = Len(prediction_history)
           /\ DOMAIN Val(summary) = {"accuracy", "total_predictions", "validated_count",
                                     "correct_count", "avg_error"}

\* C27: every record of the ledger has actual_price, was_correct, error_amount
\* and validated_at either all null or all non-null, also after a validation
\* pass that raised part-way through a record.
C27_AllOrNothing ==
    \A i \in 1..Len(prediction_history) :
        LET r == prediction_history[i]
            fields == {r.actual_price, r.was_correct, r.error_amount, r.validated_at}
        IN  None \in fields => fields = {None}

\* C28: after a validation pass whose save met no failure, the remote store
\* holds every validated record of the ledger with its actual_price,
\* was_correct, error_amount and validated_at, so that a rehydration from the
\* remote store gives the record back validated.
C28_ValidationSurvivesRestart ==
    [][(call' \in {"validate_returned", "validate_fallback"} /\ faults' = faults)
        => \A i \in 1..Len(prediction_history') :
              Validated(prediction_history'[i])
                => Row(prediction_history'[i]) \in remote']_vars

AlertTypes == {"price_change", "high_volatility", "prediction_deviation"}

\* whether the rule of an alert type fires on the arguments a, by the thresholds
RuleFires(ty, a) ==
    CASE ty = "price_change" ->
            /\ a.previous_price > 0
            /\ ExceedsPct(Abs(a.current_price - a.previous_price), a.previous_price, 5)
      [] ty = "high_volatility" -> a.volatility # None /\ Val(a.volatility) > 5000
      [] ty = "prediction_deviation" ->
            /\ a.prediction # None
            /\ ExceedsPct(Abs(a.current_price - Val(a.prediction).predicted_price),
                          a.current_price, 3)

\* the severity of an alert of type ty on the arguments a
RuleSeverity(ty, a) ==
    CASE ty = "price_change" ->
            IF ExceedsPct(Abs(a.current_price - a.previous_price), a.previous_price, 10)
            THEN "high" ELSE "medium"
      [] ty = "high_volatility" -> IF Val(a.volatility) > 8000 THEN "high" ELSE "medium"
      [] ty = "prediction_deviation" -> "medium"

\* C22: check_alerts returns one record for each rule that fires on its
\* arguments and none for a rule that does not (price change beyond 5 percent,
\* high beyond 10; volatility beyond 0.5, high beyond 0.8; deviation from the
\* prediction beyond 3 percent, medium), and the alert ledger grows by exactly
\* the returned records.
C22_AlertEvaluation ==
    [][call' = "check_alerts"
        => /\ \A ty \in AlertTypes :
                Cardinality({ i \in 1..Len(alerts') : alerts'[i].type = ty })
                    = IF RuleFires(ty, alert_args') THEN 1 ELSE 0
           /\ \A i \in 1..Len(alerts') :
                alerts'[i].severity = RuleSeverity(alerts'[i].type, alert_args')
           /\ alert_history' = alert_history \o alerts']_vars

\* a price change of exactly 5 percent did not fire while the volatility and
\* the deviation rules did, and both records are the last of the ledger
C22_Witness ==
    /\ call = "check_alerts"
    /\ alert_args.previous_price = 48000000
    /\ Len(alerts) = 2
    /\ alerts[1].type = "high_volatility" /\ alerts[1].severity = "high"
    /\ alerts[2].type = "prediction_deviation"
    /\ Len(alert_history) > 2

\* C23: the record an inference cycle creates is not among the records that
\* cycle's validation pass scans.
C23_ValidateBeforeGenerate ==
    cycle.created # None => Val(cycle.created) \notin cycle.scanned

\* C21: a training run that finds fewer than the minimum feature rows (or no
\* frame) fits no model, saves, promotes and registers nothing, leaves the
\* drift reference and the loaded model set as they were, and returns to the
\* scheduler as a handled error.
C21_InsufficientDataAborts ==
    [][(call' \in {"run_training", "run_training_error"}
            /\ training'.rows < MIN_FEATURE_ROWS)
        => /\ call' = "run_training_error"
           /\ ~training'.fitted
           /\ UNCHANGED <<active_dir, registered, reference_data, drift_report,
                          model_loader>>]_vars

\* a run with 49 rows was aborted after an earlier run had trained, promoted
\* and registered a version and set the reference
C21_Witness ==
    /\ call = "run_training_error"
    /\ training.rows = MIN_FEATURE_ROWS - 1
    /\ training.error = "insufficient_features"
    /\ active_dir # None
    /\ registered # {}
    /\ reference_data # None
    /\ model_loader.loaded

\* the loop position where `unit` is tested, and the one where it runs
CheckOf(unit) == unit
RunOf(unit) == "in_" \o unit

\* the interval of a unit has elapsed at the loop's current_time
Due(unit) ==
    CASE unit = "feature"   -> current_time - last_feature_time >= FEATURE_INTERVAL
      [] unit = "training"  -> current_time - last_training_time >= TRAINING_INTERVAL
      [] unit = "inference" -> current_time - last_inference_time >= INFERENCE_INTERVAL

\* C26: The scheduler survives pipeline failures.  An exception a pipeline
\* raises is caught inside its scheduled unit (it neither ends the loop thread
\* nor reaches the APScheduler executor), and whenever the loop tests a unit
\* whose interval has elapsed, whatever has failed before, it runs that unit.
C26_SchedulerSurvives ==
    [][ /\ sched_pc' # "dead"
        /\ "apscheduler" \notin logged_errors'
        /\ \A unit \in {"feature", "training", "inference"} :
              (sched_pc = CheckOf(unit) /\ sched_pc' # sched_pc /\ Due(unit))
              => sched_pc' = RunOf(unit) ]_vars

\* every unit has logged a pipeline error, and a later inference cycle that
\* came due is running
C26_Witness ==
    /\ {"feature", "training", "inference", "prediction_job", "training_job"}
           \subseteq logged_errors
    /\ sched_pc = "in_inference"
    /\ clock > StartTime + INFERENCE_INTERVAL

\* C29: Single scheduler loop.  Whatever start_scheduler and stop_scheduler
\* calls have been made, from whichever threads, at most one loop thread is
\* running pipelines at any time.
C29_SingleLoop ==
    Cardinality({ i \in DOMAIN loop_threads : loop_threads[i] \in Running }) <= 1

====
